---- MODULE Spec2Model ----
(***************************************************************************)
(* Model of the bike-theft dashboard: the data loader (useDataLoader), the *)
(* App component's state and memoised derived data (App.jsx), the alert    *)
(* engine (recomputeAlerts) and the slider handlers of the controls.       *)
(*                                                                         *)
(* Representation.                                                         *)
(*  - A nullable JavaScript value is a set with at most one element:       *)
(*    Null = {} stands for null/undefined, {v} for the value v.  A field   *)
(*    that is absent from an object is absent from the record's DOMAIN     *)
(*    and reads as Null, as `x.f ?? null` does.                            *)
(*  - A month 'YYYY-MM' is a positive integer; the integer order is the    *)
(*    order String.localeCompare gives on such strings.  0 stands for the  *)
(*    empty string '' (no month selected).                                 *)
(*  - risk_index values are non-negative integers (a fixed-point scale);   *)
(*    the threshold is kept in hundredths (0.5 is 50), so                  *)
(*    ri > mean * (1 + threshold) is compared exactly, cross-multiplied.   *)
(*    In the month comparison one unit is 0.00001, so rounding to 4        *)
(*    decimals rounds to a multiple of 10.  Binary floating-point error    *)
(*    is not modelled: arithmetic is exact.                                *)
(*  - useMemo dependencies are compared by value where React compares      *)
(*    references; equal references hold equal values, so a memo of the      *)
(*    model is recomputed no more often than React recomputes it.           *)
(*  - showDelta and selectedAreaId only choose what is drawn; no derived   *)
(*    value reads them, and they are left out.                             *)
(***************************************************************************)
EXTENDS Integers, Sequences, FiniteSets, TLC

VARIABLES
    \* useDataLoader state (useDataLoader.js:37-41)
    areas, features, meta, loading, error,
    \* useDataLoader effect: the closure's flag, the three fetches and the
    \* Promise.all over them (useDataLoader.js:43-65)
    cancelled, fetches, promise,
    \* App state (App.jsx:20-30)
    mode, monthIndex, monthA, monthB, displayMetric, filterAlertsOnly,
    alertThreshold,
    \* App: the [meta] effect is scheduled but has not run yet (App.jsx:33-39)
    metaEffectPending,
    \* App memoised derived data (App.jsx:42-107)
    recomputedFeatures, currentFeatures, featuresA, featuresB, deltaFeatures,
    alertCount, rankedTopN

loaderVars == <<areas, features, meta, loading, error, cancelled, fetches,
                promise>>
uiVars     == <<mode, monthIndex, monthA, monthB, displayMetric,
                filterAlertsOnly, alertThreshold, metaEffectPending>>
memoVars   == <<recomputedFeatures, currentFeatures, featuresA, featuresB,
                deltaFeatures, alertCount, rankedTopN>>
vars       == <<loaderVars, uiVars, memoVars>>

----------------------------------------------------------------------------
\* Nullable values and optional fields

Null == {}
Some(v) == {v}
IsNull(x) == x = {}
Val(x) == CHOOSE v \in x : TRUE

\* r.k ?? null : an absent field and a null field read alike
Get(r, k) == IF k \in DOMAIN r THEN r[k] ELSE Null

\* { ...row, ...extra } : object spread, later keys override
Spread(row, extra) ==
    [k \in (DOMAIN row) \cup (DOMAIN extra) |->
        IF k \in DOMAIN extra THEN extra[k] ELSE row[k]]

Min(a, b) == IF a < b THEN a ELSE b
Max(a, b) == IF a > b THEN a ELSE b

RECURSIVE SumSeq(_)
SumSeq(s) == IF s = <<>> THEN 0 ELSE Head(s) + SumSeq(Tail(s))

\* Array.prototype.slice(from, to) on 0-based indices, to exclusive
Slice(s, from, to) == SubSeq(s, from + 1, Min(to, Len(s)))

----------------------------------------------------------------------------
\* recomputeAlerts (utils/recomputeAlerts.js)

\* Mutation: a window of 7 records
BASELINE_WINDOW_seven == 6 + 1

BASELINE_WINDOW == 6
MIN_PERIODS == 3

\* Mutation: the groups are walked from the newest key to the oldest
RECURSIVE AreaOrder_newestFirst(_, _)
AreaOrder_newestFirst(rows, seen) ==
    IF rows = <<>> THEN <<>>
    ELSE IF Head(rows).area_id \in seen
         THEN AreaOrder_newestFirst(Tail(rows), seen)
         ELSE AreaOrder_newestFirst(Tail(rows),
                                    seen \cup {Head(rows).area_id})
                  \o <<Head(rows).area_id>>

\* The keys of byArea in Map insertion order: area_ids by first appearance
RECURSIVE AreaOrder(_, _)
AreaOrder(rows, seen) ==
    IF rows = <<>> THEN <<>>
    ELSE IF Head(rows).area_id \in seen THEN AreaOrder(Tail(rows), seen)
    ELSE <<Head(rows).area_id>>
             \o AreaOrder(Tail(rows), seen \cup {Head(rows).area_id})

\* Mutation: byArea.set(f.area_id, []) on every record, not only on the
\* first of an area, so that only the last record of an area is kept
AreaRows_resetOnRepeat(rows, id) ==
    LET all == SelectSeq(rows, LAMBDA f : f.area_id = id)
    IN  IF all = <<>> THEN <<>> ELSE <<all[Len(all)]>>

\* Mutation: no grouping, every area's list holds all the rows
AreaRows_ungrouped(rows, id) == rows

\* byArea.get(id): the rows of one area in input order
AreaRows(rows, id) == SelectSeq(rows, LAMBDA f : f.area_id = id)

\* Mutation: row goes before the rows of the same month (an unstable sort)
RECURSIVE InsertByMonth_beforeEqual(_, _)
InsertByMonth_beforeEqual(sorted, row) ==
    IF sorted = <<>> THEN <<row>>
    ELSE IF Head(sorted).month < row.month
         THEN <<Head(sorted)>> \o InsertByMonth_beforeEqual(Tail(sorted), row)
         ELSE <<row>> \o sorted

\* Insert row into a list sorted by month, after every row whose month is
\* not greater (the order a stable sort gives)
RECURSIVE InsertByMonth(_, _)
InsertByMonth(sorted, row) ==
    IF sorted = <<>> THEN <<row>>
    ELSE IF Head(sorted).month <= row.month
         THEN <<Head(sorted)>> \o InsertByMonth(Tail(sorted), row)
         ELSE <<row>> \o sorted

\* Mutation: the copy is not sorted
SortByMonth_unsorted(rows) == rows

\* [...rows].sort((a, b) => a.month.localeCompare(b.month)) : stable
RECURSIVE SortByMonth(_)
SortByMonth(rows) ==
    IF rows = <<>> THEN <<>>
    ELSE InsertByMonth(SortByMonth(SubSeq(rows, 1, Len(rows) - 1)),
                       rows[Len(rows)])

\* Mutation: a null risk_index in the window counts as 0
History_nullAsZero(sorted, t) ==
    LET window == Slice(sorted, Max(0, t - BASELINE_WINDOW), t)
    IN  [i \in 1..Len(window) |->
            IF IsNull(Get(window[i], "risk_index")) THEN 0
            ELSE Val(Get(window[i], "risk_index"))]

\* history: the non-null risk_index values of the up-to-6 rows before t
\* (t is 0-based, as in the source)
History(sorted, t) ==
    LET window == Slice(sorted, Max(0, t - BASELINE_WINDOW), t)
        risks  == [i \in 1..Len(window) |-> Get(window[i], "risk_index")]
        kept   == SelectSeq(risks, LAMBDA v : ~IsNull(v))
    IN  [i \in 1..Len(kept) |-> Val(kept[i])]

\* Mutation: two values are enough for a baseline
HasBaseline_twoPeriods(history) == Len(history) >= MIN_PERIODS - 1

\* Mutation: any history gives a baseline
HasBaseline_anyHistory(history) == Len(history) >= 1

\* baseline != null
HasBaseline(history) == Len(history) >= MIN_PERIODS

\* Mutation: baseline * (1 - threshold) in place of (1 + threshold)
AboveBaseline_minusThreshold(ri, history, threshold) ==
    ri * Len(history) * 100 > SumSeq(history) * (100 - threshold)

\* Mutation: >= in place of >
AboveBaseline_nonStrict(ri, history, threshold) ==
    ri * Len(history) * 100 >= SumSeq(history) * (100 + threshold)

\* ri > baseline * (1 + threshold), with baseline = sum / length and the
\* threshold in hundredths
AboveBaseline(ri, history, threshold) ==
    ri * Len(history) * 100 > SumSeq(history) * (100 + threshold)

AlertSpike(sorted, t, threshold) ==
    LET ri      == Get(sorted[t + 1], "risk_index")
        history == History(sorted, t)
    IN  IF HasBaseline(history) /\ ~IsNull(ri)
        THEN AboveBaseline(Val(ri), history, threshold)
        ELSE FALSE

\* Mutation: the last three defined values up to t are compared, nulls
\* between them skipped
AlertTrend3_lastThreeDefined(sorted, t) ==
    LET risks == [i \in 1..(t + 1) |-> Get(sorted[i], "risk_index")]
        kept  == SelectSeq(risks, LAMBDA v : ~IsNull(v))
        n     == Len(kept)
    IN  /\ ~IsNull(Get(sorted[t + 1], "risk_index"))
        /\ n >= 3
        /\ Val(kept[n]) > Val(kept[n - 1])
        /\ Val(kept[n - 1]) > Val(kept[n - 2])

AlertTrend3(sorted, t) ==
    LET ri      == Get(sorted[t + 1], "risk_index")
        riPrev1 == IF t >= 1 THEN Get(sorted[t], "risk_index") ELSE Null
        riPrev2 == IF t >= 2 THEN Get(sorted[t - 1], "risk_index") ELSE Null
    IN  /\ ~IsNull(ri) /\ ~IsNull(riPrev1) /\ ~IsNull(riPrev2)
        /\ Val(ri) > Val(riPrev1) /\ Val(riPrev1) > Val(riPrev2)

\* Mutation: a trend without a spike is not counted
AlertLevel_spikeFirst(alertSpike, alertTrend3) ==
    IF alertSpike /\ alertTrend3 THEN "warning"
    ELSE IF alertSpike THEN "watch" ELSE "none"

AlertLevel(alertSpike, alertTrend3) ==
    LET n == (IF alertSpike THEN 1 ELSE 0) + (IF alertTrend3 THEN 1 ELSE 0)
    IN  IF n = 0 THEN "none" ELSE IF n = 1 THEN "watch" ELSE "warning"

\* Mutation: the row is spread last, so alert fields it already has win
EnrichRow_shippedWins(sorted, t, threshold) ==
    LET alertSpike  == AlertSpike(sorted, t, threshold)
        alertTrend3 == AlertTrend3(sorted, t)
    IN  Spread([alert_spike  |-> alertSpike,
                alert_trend3 |-> alertTrend3,
                alert_level  |-> AlertLevel(alertSpike, alertTrend3)],
               sorted[t + 1])

\* The record pushed for position t of a sorted area group
EnrichRow(sorted, t, threshold) ==
    LET alertSpike  == AlertSpike(sorted, t, threshold)
        alertTrend3 == AlertTrend3(sorted, t)
    IN  Spread(sorted[t + 1],
               [alert_spike  |-> alertSpike,
                alert_trend3 |-> alertTrend3,
                alert_level  |-> AlertLevel(alertSpike, alertTrend3)])

\* The inner loop over one area group
EnrichGroup(rows, threshold) ==
    LET sorted == SortByMonth(rows)
    IN  [i \in 1..Len(sorted) |-> EnrichRow(sorted, i - 1, threshold)]

\* The outer loop: groups concatenated in Map order
RECURSIVE EnrichAreas(_, _, _)
EnrichAreas(rows, ids, threshold) ==
    IF ids = <<>> THEN <<>>
    ELSE EnrichGroup(AreaRows(rows, Head(ids)), threshold)
             \o EnrichAreas(rows, Tail(ids), threshold)

\* Mutation: no guard for an absent array; iterating null throws, which
\* the one-element result stands for
recomputeAlerts_unguarded(feats, threshold) ==
    IF IsNull(feats) THEN <<"TypeError: features is not iterable">>
    ELSE EnrichAreas(Val(feats), AreaOrder(Val(feats), {}), threshold)

\* features is nullable: Null, or Some(array of records)
recomputeAlerts(feats, threshold) ==
    IF IsNull(feats) THEN <<>>
    ELSE IF Len(Val(feats)) = 0 THEN Val(feats)
    ELSE EnrichAreas(Val(feats), AreaOrder(Val(feats), {}), threshold)

----------------------------------------------------------------------------
\* App derived data (App.jsx:47-107)

\* meta?.months[monthIndex] ?? ''  (0 stands for '')
currentMonthOf(m, idx) ==
    IF IsNull(m) THEN 0
    ELSE IF idx + 1 \in 1..Len(Val(m).months) THEN Val(m).months[idx + 1]
    ELSE 0

\* currentFeatures, featuresA, featuresB: the rows of one month; an array
\* is always truthy, so only an empty month short-circuits to []
MonthSlice(recomputed, m) ==
    IF m = 0 THEN <<>>
    ELSE SelectSeq(recomputed, LAMBDA f : f.month = m)

\* {} : the object with no fields
EmptyObject == [k \in {} |-> Null]

\* byArea(m)[id] ?? {} : Object.fromEntries keeps the last entry of a key
RECURSIVE LastOfArea(_, _)
LastOfArea(rows, id) ==
    IF rows = <<>> THEN EmptyObject
    ELSE IF rows[Len(rows)].area_id = id THEN rows[Len(rows)]
    ELSE LastOfArea(SubSeq(rows, 1, Len(rows) - 1), id)

\* Mutation: only the areas of month A are listed
AllIds_onlyA(rowsA, rowsB) == AreaOrder(rowsA, {})

\* [...new Set([...Object.keys(aMap), ...Object.keys(bMap)])] : the keys of
\* aMap in insertion order, then the keys of bMap not among them
AllIds(rowsA, rowsB) == AreaOrder(rowsA \o rowsB, {})

\* Mutation: Math.round(x * 1e4) / 1e4, where a tie goes up
Round4_tieUp(x) == ((x + 5) \div 10) * 10

\* +(x).toFixed(4) on a value held in units of 0.00001: the nearest
\* multiple of 10, a tie going away from zero
Round4(x) ==
    IF x >= 0 THEN ((x + 5) \div 10) * 10
    ELSE 0 - (((0 - x) + 5) \div 10) * 10

\* a.area_name ?? b.area_name ?? ''
AreaNameOf(a, b) ==
    IF "area_name" \in DOMAIN a THEN a.area_name
    ELSE IF "area_name" \in DOMAIN b THEN b.area_name
    ELSE ""

\* x.theft_count ?? 0
CountOrZero(x) ==
    IF IsNull(Get(x, "theft_count")) THEN 0 ELSE Val(Get(x, "theft_count"))

\* Mutation: riA && riB in place of the null tests, so that a risk_index
\* of 0 counts as missing
DeltaRecord_falsyRisk(id, a, b) ==
    LET riA == Get(a, "risk_index")
        riB == Get(b, "risk_index")
    IN  [area_id          |-> id,
         area_name        |-> AreaNameOf(a, b),
         delta_risk_index |-> IF /\ ~IsNull(riA) /\ ~IsNull(riB)
                                 /\ Val(riA) # 0 /\ Val(riB) # 0
                              THEN Some(Round4(Val(riB) - Val(riA)))
                              ELSE Null,
         delta_count      |-> CountOrZero(b) - CountOrZero(a),
         risk_index_a     |-> riA,
         risk_index_b     |-> riB,
         theft_count_a    |-> CountOrZero(a),
         theft_count_b    |-> CountOrZero(b),
         alert_level      |-> IF "alert_level" \in DOMAIN b
                              THEN b.alert_level ELSE "none",
         stability_flag   |-> IF "stability_flag" \in DOMAIN b
                              THEN b.stability_flag ELSE FALSE]

\* Mutation: delta_count taken as A minus B
DeltaRecord_countSwapped(id, a, b) ==
    LET riA == Get(a, "risk_index")
        riB == Get(b, "risk_index")
    IN  [area_id          |-> id,
         area_name        |-> AreaNameOf(a, b),
         delta_risk_index |-> IF ~IsNull(riA) /\ ~IsNull(riB)
                              THEN Some(Round4(Val(riB) - Val(riA)))
                              ELSE Null,
         delta_count      |-> CountOrZero(a) - CountOrZero(b),
         risk_index_a     |-> riA,
         risk_index_b     |-> riB,
         theft_count_a    |-> CountOrZero(a),
         theft_count_b    |-> CountOrZero(b),
         alert_level      |-> IF "alert_level" \in DOMAIN b
                              THEN b.alert_level ELSE "none",
         stability_flag   |-> IF "stability_flag" \in DOMAIN b
                              THEN b.stability_flag ELSE FALSE]

\* Mutation: alert_level and stability_flag fall back to the month-A record
\* when the area has none at month B
DeltaRecord_alertFromA(id, a, b) ==
    LET riA == Get(a, "risk_index")
        riB == Get(b, "risk_index")
    IN  [area_id          |-> id,
         area_name        |-> AreaNameOf(a, b),
         delta_risk_index |-> IF ~IsNull(riA) /\ ~IsNull(riB)
                              THEN Some(Round4(Val(riB) - Val(riA)))
                              ELSE Null,
         delta_count      |-> CountOrZero(b) - CountOrZero(a),
         risk_index_a     |-> riA,
         risk_index_b     |-> riB,
         theft_count_a    |-> CountOrZero(a),
         theft_count_b    |-> CountOrZero(b),
         alert_level      |-> IF "alert_level" \in DOMAIN b
                              THEN b.alert_level
                              ELSE IF "alert_level" \in DOMAIN a
                              THEN a.alert_level ELSE "none",
         stability_flag   |-> IF "stability_flag" \in DOMAIN b
                              THEN b.stability_flag
                              ELSE IF "stability_flag" \in DOMAIN a
                              THEN a.stability_flag ELSE FALSE]

\* The DeltaRecord of one area id (the body of the map callback)
DeltaRecord(id, a, b) ==
    LET riA == Get(a, "risk_index")
        riB == Get(b, "risk_index")
    IN  [area_id          |-> id,
         area_name        |-> AreaNameOf(a, b),
         delta_risk_index |-> IF ~IsNull(riA) /\ ~IsNull(riB)
                              THEN Some(Round4(Val(riB) - Val(riA)))
                              ELSE Null,
         delta_count      |-> CountOrZero(b) - CountOrZero(a),
         risk_index_a     |-> riA,
         risk_index_b     |-> riB,
         theft_count_a    |-> CountOrZero(a),
         theft_count_b    |-> CountOrZero(b),
         alert_level      |-> IF "alert_level" \in DOMAIN b
                              THEN b.alert_level ELSE "none",
         stability_flag   |-> IF "stability_flag" \in DOMAIN b
                              THEN b.stability_flag ELSE FALSE]

\* Mutation: no guard for monthA === monthB
deltaFeaturesOf_noSelfGuard(recomputed, mA, mB) ==
    IF mA = 0 \/ mB = 0 THEN <<>>
    ELSE LET rowsA == SelectSeq(recomputed, LAMBDA f : f.month = mA)
             rowsB == SelectSeq(recomputed, LAMBDA f : f.month = mB)
             ids   == AllIds(rowsA, rowsB)
         IN  [i \in 1..Len(ids) |->
                 DeltaRecord(ids[i], LastOfArea(rowsA, ids[i]),
                             LastOfArea(rowsB, ids[i]))]

\* The deltaFeatures memo
deltaFeaturesOf(recomputed, mA, mB) ==
    IF mA = 0 \/ mB = 0 \/ mA = mB THEN <<>>
    ELSE LET rowsA == SelectSeq(recomputed, LAMBDA f : f.month = mA)
             rowsB == SelectSeq(recomputed, LAMBDA f : f.month = mB)
             ids   == AllIds(rowsA, rowsB)
         IN  [i \in 1..Len(ids) |->
                 DeltaRecord(ids[i], LastOfArea(rowsA, ids[i]),
                             LastOfArea(rowsB, ids[i]))]

\* f.alert_level && f.alert_level !== 'none'
HasAlert(f) ==
    /\ "alert_level" \in DOMAIN f
    /\ f.alert_level # ""
    /\ f.alert_level # "none"

\* mode === 'monthCompare' ? deltaFeatures : currentFeatures
SourceOf(md, delta, current) == IF md = "monthCompare" THEN delta ELSE current

alertCountOf(source) == Len(SelectSeq(source, HasAlert))

\* Mutation: f goes before the elements of equal metric (an unstable order)
RECURSIVE InsertByMetricDesc_unstable(_, _, _)
InsertByMetricDesc_unstable(sorted, f, metric) ==
    IF sorted = <<>> THEN <<f>>
    ELSE IF Val(Head(sorted)[metric]) > Val(f[metric])
         THEN <<Head(sorted)>>
                  \o InsertByMetricDesc_unstable(Tail(sorted), f, metric)
         ELSE <<f>> \o sorted

\* Insert f into a list sorted by descending metric, after every element
\* whose metric is not smaller (the order a stable sort gives)
RECURSIVE InsertByMetricDesc(_, _, _)
InsertByMetricDesc(sorted, f, metric) ==
    IF sorted = <<>> THEN <<f>>
    ELSE IF Val(Head(sorted)[metric]) >= Val(f[metric])
         THEN <<Head(sorted)>> \o InsertByMetricDesc(Tail(sorted), f, metric)
         ELSE <<f>> \o sorted

\* .sort((a, b) => b[metric] - a[metric]) on rows whose metric is non-null
RECURSIVE SortByMetricDesc(_, _)
SortByMetricDesc(rows, metric) ==
    IF rows = <<>> THEN <<>>
    ELSE InsertByMetricDesc(
             SortByMetricDesc(SubSeq(rows, 1, Len(rows) - 1), metric),
             rows[Len(rows)], metric)

TOP_N == 10

\* Mutation: the sorted list is not cut to its first 10
rankedTopNOf_uncut(source, metric, alertsOnly) ==
    LET withMetric == SelectSeq(source, LAMBDA f : ~IsNull(Get(f, metric)))
        eligible   == SelectSeq(withMetric,
                                LAMBDA f : ~alertsOnly \/ HasAlert(f))
    IN  SortByMetricDesc(eligible, metric)

\* The rankedTopN memo.  The numbers of the model are integers, of which
\* Number.isNaN is false, so the first filter is the null test alone
rankedTopNOf(source, metric, alertsOnly) ==
    LET withMetric == SelectSeq(source, LAMBDA f : ~IsNull(Get(f, metric)))
        eligible   == SelectSeq(withMetric,
                                LAMBDA f : ~alertsOnly \/ HasAlert(f))
    IN  Slice(SortByMetricDesc(eligible, metric), 0, TOP_N)

MetricOf(md, dm) == IF md = "monthCompare" THEN "delta_risk_index" ELSE dm

\* useMemo(fn, deps): the cached value when no dependency changed since the
\* last render, the function's result otherwise
UseMemo(cached, depsBefore, depsNow, computed) ==
    IF depsNow = depsBefore THEN cached ELSE computed

\* The dependency arrays of the memos
RecomputedDeps == <<features, alertThreshold>>

CurrentDeps == <<recomputedFeatures, currentMonthOf(meta, monthIndex)>>

FeaturesADeps == <<recomputedFeatures, monthA>>

FeaturesBDeps == <<recomputedFeatures, monthB>>

DeltaDeps == <<recomputedFeatures, monthA, monthB>>

AlertCountDeps == <<mode, currentFeatures, deltaFeatures>>

\* Mutation: filterAlertsOnly is missing from the dependency array
RankedDeps_noAlertsOnly ==
    <<mode, currentFeatures, deltaFeatures, displayMetric>>

RankedDeps ==
    <<mode, currentFeatures, deltaFeatures, displayMetric, filterAlertsOnly>>

\* The render that follows a state change: the memos in source order, each
\* recomputed from the new state and the memos before it when one of its
\* dependencies changed
Render ==
    /\ recomputedFeatures' =
           UseMemo(recomputedFeatures, RecomputedDeps, RecomputedDeps',
                   recomputeAlerts(features', alertThreshold'))
    /\ currentFeatures' =
           UseMemo(currentFeatures, CurrentDeps, CurrentDeps',
                   MonthSlice(recomputedFeatures',
                              currentMonthOf(meta', monthIndex')))
    /\ featuresA' =
           UseMemo(featuresA, FeaturesADeps, FeaturesADeps',
                   MonthSlice(recomputedFeatures', monthA'))
    /\ featuresB' =
           UseMemo(featuresB, FeaturesBDeps, FeaturesBDeps',
                   MonthSlice(recomputedFeatures', monthB'))
    /\ deltaFeatures' =
           UseMemo(deltaFeatures, DeltaDeps, DeltaDeps',
                   deltaFeaturesOf(recomputedFeatures', monthA', monthB'))
    /\ alertCount' =
           UseMemo(alertCount, AlertCountDeps, AlertCountDeps',
                   alertCountOf(SourceOf(mode', deltaFeatures',
                                         currentFeatures')))
    /\ rankedTopN' =
           UseMemo(rankedTopN, RankedDeps, RankedDeps',
                   rankedTopNOf(SourceOf(mode', deltaFeatures',
                                         currentFeatures'),
                                MetricOf(mode', displayMetric'),
                                filterAlertsOnly'))

\* The first render, or the render of a state taken as a starting point
Rendered ==
    /\ recomputedFeatures = recomputeAlerts(features, alertThreshold)
    /\ currentFeatures =
           MonthSlice(recomputedFeatures, currentMonthOf(meta, monthIndex))
    /\ featuresA = MonthSlice(recomputedFeatures, monthA)
    /\ featuresB = MonthSlice(recomputedFeatures, monthB)
    /\ deltaFeatures = deltaFeaturesOf(recomputedFeatures, monthA, monthB)
    /\ alertCount =
           alertCountOf(SourceOf(mode, deltaFeatures, currentFeatures))
    /\ rankedTopN =
           rankedTopNOf(SourceOf(mode, deltaFeatures, currentFeatures),
                        MetricOf(mode, displayMetric), filterAlertsOnly)

----------------------------------------------------------------------------
\* Input data

Areas == {"E1", "E2"}

PanelRecord(a, m, r, c) ==
    [area_id |-> a, month |-> m, risk_index |-> r, theft_count |-> c]

\* meta.json with the months 1..n in ascending order
MetaOf(n) == Some([months |-> [i \in 1..n |-> i]])

\* What features.json and meta.json may hold when the App is run from
\* construction: two areas over MaxAppMonths months, every (area, month)
\* cell present, the risk_index of an area null or level; or no record at
\* all, with no month, MaxAppMonths months or LongMonths months
MaxAppMonths == 2

\* A month list long enough for month A to start after the first month
LongMonths == MaxAppMonths + 6

AppRisk == {Null, Some(1)}

AppFeatures ==
    {[i \in 1..(2 * MaxAppMonths) |->
         PanelRecord(IF i <= MaxAppMonths THEN "E1" ELSE "E2",
                     ((i - 1) % MaxAppMonths) + 1,
                     IF i <= MaxAppMonths THEN r1 ELSE r2,
                     Some(i % 3))]
        : r1 \in AppRisk, r2 \in AppRisk}

AppDatasets ==
    {[features |-> f, meta |-> MetaOf(MaxAppMonths)] : f \in AppFeatures}
        \cup {[features |-> <<>>, meta |-> MetaOf(0)],
              [features |-> <<>>, meta |-> MetaOf(MaxAppMonths)],
              [features |-> <<>>, meta |-> MetaOf(LongMonths)]}

----------------------------------------------------------------------------
\* useDataLoader (hooks/useDataLoader.js)

FetchNames == {"areas", "features", "meta"}

\* fetchJson(path) resolves; Promise.all fulfils with the last of the three
FetchOk(k) ==
    /\ fetches[k] = "pending"
    /\ fetches' = [fetches EXCEPT ![k] = "ok"]
    /\ promise' = IF promise.state = "pending"
                     /\ \A j \in FetchNames \ {k} : fetches[j] = "ok"
                  THEN [state |-> "fulfilled", reason |-> Null]
                  ELSE promise
    /\ UNCHANGED <<areas, features, meta, loading, error, cancelled>>
    /\ UNCHANGED <<uiVars, memoVars>>

\* fetchJson(path) throws; Promise.all rejects with the first rejection
FetchFail(k) ==
    /\ fetches[k] = "pending"
    /\ fetches' = [fetches EXCEPT ![k] = "failed"]
    /\ promise' = IF promise.state = "pending"
                  THEN [state |-> "rejected", reason |-> Some(k)]
                  ELSE promise
    /\ UNCHANGED <<areas, features, meta, loading, error, cancelled>>
    /\ UNCHANGED <<uiVars, memoVars>>

\* Mutation: the .then callback without 'if (cancelled) return'
PromiseThen_ignoresCancelled(d) ==
    /\ promise.state = "fulfilled"
    /\ promise' = [promise EXCEPT !.state = "handled"]
    /\ areas' = Some("areas.geojson")
    /\ features' = Some(d.features)
    /\ meta' = d.meta
    /\ loading' = FALSE
    /\ metaEffectPending' = TRUE
    /\ UNCHANGED <<mode, monthIndex, monthA, monthB, displayMetric,
                   filterAlertsOnly, alertThreshold>>
    /\ Render
    /\ UNCHANGED <<error, cancelled, fetches>>

\* The .then callback, with the data the three files held
PromiseThen(d) ==
    /\ promise.state = "fulfilled"
    /\ promise' = [promise EXCEPT !.state = "handled"]
    /\ IF cancelled
       THEN UNCHANGED <<areas, features, meta, loading, uiVars, memoVars>>
       ELSE /\ areas' = Some("areas.geojson")
            /\ features' = Some(d.features)
            /\ meta' = d.meta
            /\ loading' = FALSE
            /\ metaEffectPending' = TRUE
            /\ UNCHANGED <<mode, monthIndex, monthA, monthB, displayMetric,
                           filterAlertsOnly, alertThreshold>>
            /\ Render
    /\ UNCHANGED <<error, cancelled, fetches>>

\* Mutation: the .catch callback without setLoading(false)
PromiseCatch_keepsLoading ==
    /\ promise.state = "rejected"
    /\ promise' = [promise EXCEPT !.state = "handled"]
    /\ IF cancelled
       THEN UNCHANGED error
       ELSE error' = promise.reason
    /\ UNCHANGED <<areas, features, meta, loading, cancelled, fetches>>
    /\ UNCHANGED <<uiVars, memoVars>>

\* The .catch callback
PromiseCatch ==
    /\ promise.state = "rejected"
    /\ promise' = [promise EXCEPT !.state = "handled"]
    /\ IF cancelled
       THEN UNCHANGED <<error, loading>>
       ELSE /\ error' = promise.reason
            /\ loading' = FALSE
    /\ UNCHANGED <<areas, features, meta, cancelled, fetches>>
    /\ UNCHANGED <<uiVars, memoVars>>

\* The effect's cleanup, run when the component unmounts
Unmount ==
    /\ ~cancelled
    /\ cancelled' = TRUE
    /\ UNCHANGED <<areas, features, meta, loading, error, fetches, promise>>
    /\ UNCHANGED <<uiVars, memoVars>>

----------------------------------------------------------------------------
\* App (App.jsx) and its controls (components/FilterPanel.jsx)

\* Mutation: month A starts six months before the end, not seven
MetaEffect_lastSix ==
    /\ metaEffectPending
    /\ ~cancelled
    /\ metaEffectPending' = FALSE
    /\ IF IsNull(meta) \/ Len(Val(meta).months) = 0
       THEN UNCHANGED <<monthIndex, monthA, monthB>>
       ELSE LET months == Val(meta).months
            IN  /\ monthIndex' = Len(months) - 1
                /\ monthA' = months[Max(0, Len(months) - 6) + 1]
                /\ monthB' = months[Len(months)]
    /\ UNCHANGED <<mode, displayMetric, filterAlertsOnly, alertThreshold>>
    /\ UNCHANGED loaderVars
    /\ Render

\* The effect on [meta]: initialise the month selectors once meta loads
MetaEffect ==
    /\ metaEffectPending
    /\ ~cancelled
    /\ metaEffectPending' = FALSE
    /\ IF IsNull(meta) \/ Len(Val(meta).months) = 0
       THEN UNCHANGED <<monthIndex, monthA, monthB>>
       ELSE LET months == Val(meta).months
            IN  /\ monthIndex' = Len(months) - 1
                /\ monthA' = months[Max(0, Len(months) - 7) + 1]
                /\ monthB' = months[Len(months)]
    /\ UNCHANGED <<mode, displayMetric, filterAlertsOnly, alertThreshold>>
    /\ UNCHANGED loaderVars
    /\ Render

\* The main UI is on screen and idle: past the loading and error screens,
\* mounted, no effect waiting to run
MainUI == ~loading /\ IsNull(error) /\ ~cancelled /\ ~metaEffectPending

\* ControlsBar renders its controls only when meta has months
HasControls == MainUI /\ ~IsNull(meta)

\* SegmentedControl of the mode: onChange={setMode}
SetMode(m) ==
    /\ HasControls
    /\ mode' = m
    /\ UNCHANGED <<monthIndex, monthA, monthB, displayMetric,
                   filterAlertsOnly, alertThreshold, metaEffectPending>>
    /\ UNCHANGED loaderVars
    /\ Render

\* SingleRangeSlider: onChange={e => setMonthIndex(+e.target.value)}
SetMonthIndex(i) ==
    /\ HasControls
    /\ mode = "metricCompare"
    /\ i \in 0..(Len(Val(meta).months) - 1)
    /\ monthIndex' = i
    /\ UNCHANGED <<mode, monthA, monthB, displayMetric, filterAlertsOnly,
                   alertThreshold, metaEffectPending>>
    /\ UNCHANGED loaderVars
    /\ Render

\* DualRangeSlider thumb A: onChange={e => onChangeA(months[+e.target.value])}
SetMonthA(i) ==
    /\ HasControls
    /\ mode = "monthCompare"
    /\ i \in 0..(Len(Val(meta).months) - 1)
    /\ monthA' = Val(meta).months[i + 1]
    /\ UNCHANGED <<mode, monthIndex, monthB, displayMetric, filterAlertsOnly,
                   alertThreshold, metaEffectPending>>
    /\ UNCHANGED loaderVars
    /\ Render

\* DualRangeSlider thumb B: onChange={e => onChangeB(months[+e.target.value])}
SetMonthB(i) ==
    /\ HasControls
    /\ mode = "monthCompare"
    /\ i \in 0..(Len(Val(meta).months) - 1)
    /\ monthB' = Val(meta).months[i + 1]
    /\ UNCHANGED <<mode, monthIndex, monthA, displayMetric, filterAlertsOnly,
                   alertThreshold, metaEffectPending>>
    /\ UNCHANGED loaderVars
    /\ Render

\* SegmentedControl of the metric, clickable in metricCompare mode only
SetDisplayMetric(dm) ==
    /\ HasControls
    /\ mode = "metricCompare"
    /\ displayMetric' = dm
    /\ UNCHANGED <<mode, monthIndex, monthA, monthB, filterAlertsOnly,
                   alertThreshold, metaEffectPending>>
    /\ UNCHANGED loaderVars
    /\ Render

\* ToggleChip 'Alerts only': onClick={() => setFilterAlertsOnly(v => !v)}
ToggleAlertsOnly ==
    /\ MainUI
    /\ filterAlertsOnly' = ~filterAlertsOnly
    /\ UNCHANGED <<mode, monthIndex, monthA, monthB, displayMetric,
                   alertThreshold, metaEffectPending>>
    /\ UNCHANGED loaderVars
    /\ Render

SLIDER_MIN == 10
SLIDER_MAX == 100
SLIDER_STEP == 5

\* Mutation: the slider starts at 0 (min is not set)
SliderValues_fromZero ==
    {v \in 0..SLIDER_MAX : v % SLIDER_STEP = 0}

\* The values a range input with min, max and step can report
SliderValues ==
    {v \in SLIDER_MIN..SLIDER_MAX : (v - SLIDER_MIN) % SLIDER_STEP = 0}

\* Threshold slider: onChange={e => setAlertThreshold(+e.target.value / 100)}
\* (the state is kept in hundredths, so the division is not applied)
SetAlertThreshold(v) ==
    /\ MainUI
    /\ alertThreshold' = v
    /\ UNCHANGED <<mode, monthIndex, monthA, monthB, displayMetric,
                   filterAlertsOnly, metaEffectPending>>
    /\ UNCHANGED loaderVars
    /\ Render

----------------------------------------------------------------------------
\* The App from construction

Init ==
    /\ areas = Null /\ features = Null /\ meta = Null
    /\ loading = TRUE /\ error = Null
    /\ cancelled = FALSE
    /\ fetches = [k \in FetchNames |-> "pending"]
    /\ promise = [state |-> "pending", reason |-> Null]
    /\ mode = "metricCompare"
    /\ monthIndex = 0 /\ monthA = 0 /\ monthB = 0
    /\ displayMetric = "risk_index"
    /\ filterAlertsOnly = FALSE
    /\ alertThreshold = 50
    /\ metaEffectPending = FALSE
    /\ Rendered

Next ==
    \/ \E k \in FetchNames : FetchOk(k)
    \/ \E k \in FetchNames : FetchFail(k)
    \/ \E d \in AppDatasets : PromiseThen(d)
    \/ PromiseCatch
    \/ Unmount
    \/ MetaEffect
    \/ \E m \in {"metricCompare", "monthCompare"} : SetMode(m)
    \/ \E i \in 0..(LongMonths - 1) : SetMonthIndex(i)
    \/ \E i \in 0..(LongMonths - 1) : SetMonthA(i)
    \/ \E i \in 0..(LongMonths - 1) : SetMonthB(i)
    \/ \E dm \in {"risk_index", "theft_count"} : SetDisplayMetric(dm)
    \/ ToggleAlertsOnly
    \/ \E v \in SliderValues : SetAlertThreshold(v)

Spec == Init /\ [][Next]_vars

----------------------------------------------------------------------------
\* The alert engine on its own: the App with a panel loaded, the month
\* selectors initialised, and the threshold slider as the only control used

\* A panel loaded and shown: the state PromiseThen and MetaEffect lead to
Loaded(f, m) ==
    /\ areas = Some("areas.geojson") /\ features = Some(f) /\ meta = m
    /\ loading = FALSE /\ error = Null
    /\ cancelled = FALSE
    /\ fetches = [k \in FetchNames |-> "ok"]
    /\ promise = [state |-> "handled", reason |-> Null]
    /\ mode = "metricCompare"
    /\ monthIndex = Len(Val(m).months) - 1
    /\ monthA = Val(m).months[Max(0, Len(Val(m).months) - 7) + 1]
    /\ monthB = Val(m).months[Len(Val(m).months)]
    /\ displayMetric = "risk_index"
    /\ filterAlertsOnly = FALSE
    /\ alertThreshold = 50
    /\ metaEffectPending = FALSE
    /\ Rendered

\* The risk_index values of the panels
RiskValues == {Null, Some(1), Some(2), Some(3)}

\* One area's history in month order, up to MaxSeries months: a level
\* stretch, then months of any values, which may fill half of MaxSeries.
\* Each record carries its place in the input as theft_count.
MaxSeries == 8

MaxTail == MaxSeries \div 2
MaxHead == MaxSeries - MaxTail

SeriesOf(h, base, tail) ==
    [i \in 1..(h + Len(tail)) |->
        PanelRecord("E1", i, IF i <= h THEN base ELSE tail[i - h], Some(i))]

SeriesInputs ==
    {SeriesOf(h, base, tail) :
        h \in 0..MaxHead, base \in RiskValues,
        tail \in UNION {[1..n -> RiskValues] : n \in 1..MaxTail}}

\* Panels in any order: up to MaxLen records over two areas and three
\* months, repeats of an (area, month) pair included; the risk_index rises
\* by month in E1 and falls in E2.  Each record carries its place in the
\* input as theft_count, and the other fields features.json ships: an
\* exposure, and in E2 the alert fields the pipeline computed.
MaxLen == 4

ShuffleMonths == {1, 2, 3}

RiskAt(a, m) == IF a = "E1" THEN Some(m) ELSE Some(4 - m)

ShippedFields(a) ==
    IF a = "E1" THEN [exposure |-> 7]
    ELSE [exposure |-> 9, alert_spike |-> TRUE, alert_trend3 |-> TRUE,
          alert_level |-> "warning"]

ShuffledInputs ==
    {[i \in 1..Len(c) |->
         Spread(PanelRecord(c[i][1], c[i][2], RiskAt(c[i][1], c[i][2]),
                            Some(i)),
                ShippedFields(c[i][1]))] :
        c \in UNION {[1..k -> Areas \X ShuffleMonths] : k \in 1..MaxLen}}

AlertInputs == SeriesInputs \cup ShuffledInputs

\* The slider stops used with these panels
AlertThresholds == {10, 50, 100}

InitAlerts ==
    \E f \in AlertInputs :
        Loaded(f, MetaOf(Max(MaxSeries, MaxLen)))

NextAlerts == \E v \in AlertThresholds : SetAlertThreshold(v)

SpecAlerts == InitAlerts /\ [][NextAlerts]_vars

----------------------------------------------------------------------------
\* The month comparison: the App with a panel loaded and the mode switch and
\* the two month thumbs as the only controls used

\* risk_index values in units of 0.00001
CompareRisk == {Null, Some(0), Some(4), Some(15)}

\* An (area, month) cell of the panel: no record, or a record with a risk
Cells(risks) ==
    {[present |-> FALSE, risk |-> Null]}
        \cup {[present |-> TRUE, risk |-> r] : r \in risks}

\* The area_name a record of month m carries: the name changed after month 1
NameAt(a, m) == IF m = 1 THEN a \o " (old name)" ELSE a \o " (new name)"

\* A record with every field; stability_flag is true from month 2 on
CellRows(a, m, cell, c) ==
    IF cell.present
    THEN <<Spread(PanelRecord(a, m, cell.risk, c),
                  [area_name |-> NameAt(a, m), stability_flag |-> m >= 2])>>
    ELSE <<>>

\* A record with neither theft_count nor area_name
BareRows(a, m, present, r) ==
    IF present THEN <<[area_id |-> a, month |-> m, risk_index |-> r]>>
    ELSE <<>>

\* Panels over months 1..3 in month order: E1 and E2 may have a record in
\* months 1 and 2, E3 in months 1 and 3; a second record for (E1, month 1)
\* may follow at the end
CompareInputs ==
    {CellRows("E1", 1, c11, Some(1)) \o CellRows("E2", 1, c21, Some(2))
       \o BareRows("E3", 1, e31, Some(4))
       \o CellRows("E1", 2, c12, Some(3)) \o CellRows("E2", 2, c22, Some(0))
       \o BareRows("E3", 3, e33, Some(4))
       \o BareRows("E1", 1, dup, Some(4)) :
        c11 \in Cells(CompareRisk), c12 \in Cells(CompareRisk),
        c21 \in Cells({Null, Some(4)}), c22 \in Cells({Null, Some(4)}),
        e31 \in BOOLEAN, e33 \in BOOLEAN, dup \in BOOLEAN}

CompareMonths == 3

InitCompare == \E f \in CompareInputs : Loaded(f, MetaOf(CompareMonths))

NextCompare ==
    \/ \E m \in {"metricCompare", "monthCompare"} : SetMode(m)
    \/ \E i \in 0..(CompareMonths - 1) : SetMonthA(i)
    \/ \E i \in 0..(CompareMonths - 1) : SetMonthB(i)

SpecCompare == InitCompare /\ [][NextCompare]_vars

----------------------------------------------------------------------------
\* The ranking: the App with a panel of MaxAreas areas loaded, and every
\* control but the threshold slider in use

MaxAreas == 12

RankAreaId(i) == "A" \o ToString(i)

\* The risk_index of an area by month, in units of 0.00001
RankRisk(profile, m) ==
    CASE profile = "rising" -> Some(10 * m)
      [] profile = "steep"  -> Some(20 * m)
      [] profile = "flat"   -> Some(20)
      [] profile = "zero"   -> Some(0)
      [] profile = "jump"   -> IF m >= 4 THEN Some(20) ELSE Some(10)
      [] OTHER              -> IF m >= 3 THEN Null ELSE Some(30)

RankProfiles == <<"rising", "flat", "zero", "gap", "steep">>

\* Which profile area i has in layout k: a mix of all five; all rising but
\* the first; zero and gap in turn; steep and rising in turn; all flat but
\* every third
RankLayouts == 1..5

ProfileOf(k, i) ==
    CASE k = 1 -> RankProfiles[(i % 5) + 1]
      [] k = 2 -> IF i = 1 THEN "flat" ELSE "rising"
      [] k = 3 -> IF i % 2 = 0 THEN "zero" ELSE "gap"
      [] k = 4 -> IF i % 2 = 0 THEN "steep" ELSE "rising"
      [] OTHER -> IF i % 3 = 0 THEN "steep" ELSE "flat"

\* theft_count: small numbers with repeats and zeros, null in the third
\* area
RankCount(i, m) == IF i = 3 THEN Null ELSE Some((3 * i + m) % 5)

\* The panel of layout k over months 1..CompareMonths, a month after the
\* other as features.json lists them
RankFeatures(k) ==
    [n \in 1..(MaxAreas * CompareMonths) |->
        LET i == ((n - 1) % MaxAreas) + 1
            m == ((n - 1) \div MaxAreas) + 1
        IN  PanelRecord(RankAreaId(i), m, RankRisk(ProfileOf(k, i), m),
                        RankCount(i, m))]

InitRanking ==
    \E k \in RankLayouts : Loaded(RankFeatures(k), MetaOf(CompareMonths))

NextRanking ==
    \/ \E m \in {"metricCompare", "monthCompare"} : SetMode(m)
    \/ \E i \in 0..(CompareMonths - 1) : SetMonthIndex(i)
    \/ \E i \in 0..(CompareMonths - 1) : SetMonthA(i)
    \/ \E i \in 0..(CompareMonths - 1) : SetMonthB(i)
    \/ \E dm \in {"risk_index", "theft_count"} : SetDisplayMetric(dm)
    \/ ToggleAlertsOnly

SpecRanking == InitRanking /\ [][NextRanking]_vars

----------------------------------------------------------------------------
\* The memo chain: the App with a small panel loaded and every control in
\* use

\* Two areas over months 1..CompareMonths + 1, a month after the other; E1
\* jumps or rises, E2 is flat, has a gap or rises steeply
MemoFeatures(p1, p2) ==
    [n \in 1..(2 * (CompareMonths + 1)) |->
        LET i == ((n - 1) % 2) + 1
            m == ((n - 1) \div 2) + 1
        IN  PanelRecord(IF i = 1 THEN "E1" ELSE "E2", m,
                        RankRisk(IF i = 1 THEN p1 ELSE p2, m),
                        RankCount(i, m))]

InitMemo ==
    \E p1 \in {"jump", "rising"}, p2 \in {"flat", "gap", "steep"} :
        Loaded(MemoFeatures(p1, p2), MetaOf(CompareMonths + 1))

NextMemo ==
    \/ \E m \in {"metricCompare", "monthCompare"} : SetMode(m)
    \/ \E i \in 0..CompareMonths : SetMonthIndex(i)
    \/ \E i \in 0..CompareMonths : SetMonthA(i)
    \/ \E i \in 0..CompareMonths : SetMonthB(i)
    \/ \E dm \in {"risk_index", "theft_count"} : SetDisplayMetric(dm)
    \/ ToggleAlertsOnly
    \/ \E v \in AlertThresholds : SetAlertThreshold(v)

SpecMemo == InitMemo /\ [][NextMemo]_vars

----------------------------------------------------------------------------
\* Properties of the alert engine (checked under SpecAlerts)

\* The records of one area in the order the result lists them, which is
\* the chronological order within the area
GroupOf(out, a) == SelectSeq(out, LAMBDA f : f.area_id = a)

AreaIds(rows) == {rows[i].area_id : i \in 1..Len(rows)}

\* The 1-based indices of the up-to-6 records before 0-based position t
WindowOf(t) == {j \in 1..t : j >= t - 5}

\* Those of them whose risk_index is not null
NonNullIn(g, t) == {j \in WindowOf(t) : g[j].risk_index # Null}

RECURSIVE RiskSum(_, _)
RiskSum(g, idx) ==
    IF idx = {} THEN 0
    ELSE LET j == CHOOSE x \in idx : TRUE
         IN  Val(g[j].risk_index) + RiskSum(g, idx \ {j})

\* risk_index of position t is strictly above mean * (1 + threshold), the
\* mean taken over the non-null window values
ExceedsCutoff(g, t) ==
    Val(g[t + 1].risk_index) * Cardinality(NonNullIn(g, t)) * 100
        > RiskSum(g, NonNullIn(g, t)) * (100 + alertThreshold)

\* risk_index of position t is exactly mean * (1 + threshold)
AtCutoff(g, t) ==
    Val(g[t + 1].risk_index) * Cardinality(NonNullIn(g, t)) * 100
        = RiskSum(g, NonNullIn(g, t)) * (100 + alertThreshold)

\* C1: for every record at chronological position t of an area group,
\* alert_spike is true if and only if at least 3 of the up-to-6 records
\* before it have a non-null risk_index, its own risk_index is non-null, and
\* its risk_index is strictly greater than the mean of the non-null window
\* values times (1 + threshold); a value equal to the cutoff does not spike.
C1_SpikeIff ==
    \A a \in AreaIds(recomputedFeatures) :
        LET g == GroupOf(recomputedFeatures, a)
        IN  \A t \in 0..(Len(g) - 1) :
                g[t + 1].alert_spike
                    <=> /\ Cardinality(NonNullIn(g, t)) >= 3
                        /\ g[t + 1].risk_index # Null
                        /\ ExceedsCutoff(g, t)

\* A result in which one record spikes over a window that holds a null and
\* a record older than the window, and another record sits exactly at its
\* cutoff and does not spike
C1_Witness ==
    \E a \in AreaIds(recomputedFeatures) :
        LET g == GroupOf(recomputedFeatures, a)
        IN  /\ alertThreshold = 100
            /\ \E t \in 0..(Len(g) - 1) :
                   /\ g[t + 1].alert_spike
                   /\ t > 6
                   /\ NonNullIn(g, t) # WindowOf(t)
            /\ \E t \in 0..(Len(g) - 1) :
                   /\ ~g[t + 1].alert_spike
                   /\ Cardinality(NonNullIn(g, t)) >= 3
                   /\ g[t + 1].risk_index # Null
                   /\ AtCutoff(g, t)

\* C2: for every record at chronological position t of an area group,
\* alert_trend3 is true if and only if t >= 2, the records at t-2, t-1 and t
\* all have a non-null risk_index, and risk[t-2] < risk[t-1] < risk[t]; a
\* null at t-1 or t-2 makes it false whatever came earlier.
C2_TrendIff ==
    \A a \in AreaIds(recomputedFeatures) :
        LET g == GroupOf(recomputedFeatures, a)
        IN  \A t \in 0..(Len(g) - 1) :
                g[t + 1].alert_trend3
                    <=> /\ t >= 2
                        /\ g[t - 1].risk_index # Null
                        /\ g[t].risk_index # Null
                        /\ g[t + 1].risk_index # Null
                        /\ Val(g[t - 1].risk_index) < Val(g[t].risk_index)
                        /\ Val(g[t].risk_index) < Val(g[t + 1].risk_index)

\* A result, after the threshold was moved, from an input that was not in
\* month order, in which one record has the trend signal
C2_Witness ==
    /\ alertThreshold = 10
    /\ \E i, j \in 1..Len(Val(features)) :
           /\ i < j
           /\ Val(features)[i].area_id = Val(features)[j].area_id
           /\ Val(features)[i].month > Val(features)[j].month
    /\ \E i \in 1..Len(recomputedFeatures) :
           recomputedFeatures[i].alert_trend3

\* A result in which a null at t-1 breaks a chain that the values at t-3,
\* t-2 and t would form
C2_NullBreaksWitness ==
    \E a \in AreaIds(recomputedFeatures) :
        LET g == GroupOf(recomputedFeatures, a)
        IN  \E t \in 3..(Len(g) - 1) :
                /\ ~g[t + 1].alert_trend3
                /\ g[t].risk_index = Null
                /\ g[t - 2].risk_index # Null
                /\ g[t - 1].risk_index # Null
                /\ g[t + 1].risk_index # Null
                /\ Val(g[t - 2].risk_index) < Val(g[t - 1].risk_index)
                /\ Val(g[t - 1].risk_index) < Val(g[t + 1].risk_index)

\* C3: every record of the result has alert_level 'warning' iff both
\* signals are true, 'watch' iff exactly one is, 'none' iff neither is, and
\* no other alert_level.
C3_LevelTotality ==
    \A i \in 1..Len(recomputedFeatures) :
        LET f == recomputedFeatures[i]
        IN  /\ f.alert_level \in {"none", "watch", "warning"}
            /\ f.alert_level = "warning"
                   <=> (f.alert_spike /\ f.alert_trend3)
            /\ f.alert_level = "watch"
                   <=> (f.alert_spike # f.alert_trend3)
            /\ f.alert_level = "none"
                   <=> (~f.alert_spike /\ ~f.alert_trend3)

\* A result, after the threshold was moved, that holds all three levels
C3_Witness ==
    /\ alertThreshold = 10
    /\ \E i \in 1..Len(recomputedFeatures) :
           recomputedFeatures[i].alert_level = "warning"
    /\ \E i \in 1..Len(recomputedFeatures) :
           recomputedFeatures[i].alert_level = "watch"
    /\ \E i \in 1..Len(recomputedFeatures) :
           recomputedFeatures[i].alert_level = "none"

CountOfArea(rows, a) == Len(SelectSeq(rows, LAMBDA f : f.area_id = a))

\* C4: the result has exactly as many records as the input, and for every
\* area_id as many records with that area_id as the input has.
C4_Cardinality ==
    /\ Len(recomputedFeatures) = Len(Val(features))
    /\ \A a \in AreaIds(Val(features)) \cup AreaIds(recomputedFeatures) :
           CountOfArea(recomputedFeatures, a) = CountOfArea(Val(features), a)

\* An input of two interleaved areas, one of them with several records,
\* recomputed after the threshold was moved
C4_Witness ==
    /\ alertThreshold = 100
    /\ Cardinality(AreaIds(Val(features))) = 2
    /\ \E i \in 2..(Len(Val(features)) - 1) :
           /\ Val(features)[i - 1].area_id # Val(features)[i].area_id
           /\ Val(features)[i + 1].area_id = Val(features)[i - 1].area_id
    /\ Len(recomputedFeatures) = Len(Val(features))

\* The place of an area's first record in the input
FirstIndex(rows, a) ==
    CHOOSE i \in 1..Len(rows) :
        /\ rows[i].area_id = a
        /\ \A j \in 1..(i - 1) : rows[j].area_id # a

\* No two records of the input share an (area_id, month) pair
UniqueKeys(rows) ==
    \A i, j \in 1..Len(rows) :
        (i # j /\ rows[i].area_id = rows[j].area_id)
            => rows[i].month # rows[j].month

\* C5: the result is the concatenation of the area groups in the order in
\* which each area_id first appears in the input, each group contiguous and
\* ascending by month; strictly ascending when the input has at most one
\* record per (area_id, month).
C5_GroupOrder ==
    LET in  == Val(features)
        out == recomputedFeatures
    IN  \A i, j \in 1..Len(out) :
            i < j =>
                IF out[i].area_id = out[j].area_id
                THEN /\ out[i].month <= out[j].month
                     /\ UniqueKeys(in) => out[i].month < out[j].month
                     /\ \A k \in i..j : out[k].area_id = out[i].area_id
                ELSE FirstIndex(in, out[i].area_id)
                         < FirstIndex(in, out[j].area_id)

\* An input that starts with E2, returns to E2 after an E1 record, and
\* lists E2's months out of order, recomputed after the threshold was moved
C5_Witness ==
    LET in == Val(features)
    IN  /\ alertThreshold = 10
        /\ Len(in) >= 3
        /\ in[1].area_id = "E2"
        /\ in[2].area_id = "E1"
        /\ in[3].area_id = "E2"
        /\ in[1].month > in[3].month
        /\ Len(recomputedFeatures) = Len(in)

\* C6: whenever fewer than 3 of the up-to-6 records before a record in its
\* area group have a non-null risk_index, its alert_spike is false, whatever
\* its own risk_index and the threshold.
C6_SpikeNeedsHistory ==
    \A a \in AreaIds(recomputedFeatures) :
        LET g == GroupOf(recomputedFeatures, a)
        IN  \A t \in 0..(Len(g) - 1) :
                Cardinality(NonNullIn(g, t)) < 3 => ~g[t + 1].alert_spike

\* A record with six records before it, of which only two are non-null,
\* whose own risk_index is above their mean times (1 + threshold)
C6_Witness ==
    \E a \in AreaIds(recomputedFeatures) :
        LET g == GroupOf(recomputedFeatures, a)
        IN  \E t \in 6..(Len(g) - 1) :
                /\ alertThreshold = 10
                /\ Cardinality(NonNullIn(g, t)) = 2
                /\ g[t + 1].risk_index # Null
                /\ ExceedsCutoff(g, t)
                /\ ~g[t + 1].alert_spike

\* C19: a record whose own risk_index is null has alert_spike false,
\* alert_trend3 false and alert_level 'none', whatever its history and the
\* threshold; and a null is never counted as 0: a trend needs the two
\* records before to be non-null, and a spike needs 3 non-null values in
\* the window and a risk_index above the mean of the non-null values alone.
C19_NullNeverZero ==
    \A a \in AreaIds(recomputedFeatures) :
        LET g == GroupOf(recomputedFeatures, a)
        IN  \A t \in 0..(Len(g) - 1) :
                /\ g[t + 1].risk_index = Null
                       => /\ ~g[t + 1].alert_spike
                          /\ ~g[t + 1].alert_trend3
                          /\ g[t + 1].alert_level = "none"
                /\ g[t + 1].alert_trend3
                       => /\ t >= 2
                          /\ g[t].risk_index # Null
                          /\ g[t - 1].risk_index # Null
                /\ g[t + 1].alert_spike
                       => /\ Cardinality(NonNullIn(g, t)) >= 3
                          /\ ExceedsCutoff(g, t)

\* After the threshold was moved: a record with a null risk_index and three
\* non-null values before it, and a record that does not spike over a
\* window with nulls but would if the nulls counted as 0 in the mean
C19_Witness ==
    \E a \in AreaIds(recomputedFeatures) :
        LET g == GroupOf(recomputedFeatures, a)
        IN  /\ alertThreshold = 10
            /\ \E t \in 3..(Len(g) - 1) :
                   /\ g[t + 1].risk_index = Null
                   /\ Cardinality(NonNullIn(g, t)) >= 3
                   /\ g[t + 1].alert_level = "none"
            /\ \E t \in 3..(Len(g) - 1) :
                   /\ g[t + 1].risk_index # Null
                   /\ Cardinality(NonNullIn(g, t)) >= 3
                   /\ Cardinality(NonNullIn(g, t)) < Cardinality(WindowOf(t))
                   /\ Val(g[t + 1].risk_index) * Cardinality(WindowOf(t)) * 100
                          > RiskSum(g, NonNullIn(g, t)) * (100 + alertThreshold)
                   /\ ~g[t + 1].alert_spike

\* The three fields recomputeAlerts sets
AlertFields == {"alert_spike", "alert_trend3", "alert_level"}

\* The record with the fields in keep only
Restrict(rec, keep) == [k \in (DOMAIN rec) \cap keep |-> rec[k]]

\* The input with nothing but what the alerts are computed from
CoreOf(rows) ==
    [i \in 1..Len(rows) |->
        Restrict(rows[i], {"area_id", "month", "risk_index"})]

\* C20: each record of the result equals its input record (found by the
\* place it carries as theft_count) on every field other than alert_spike,
\* alert_trend3 and alert_level, and has these three; and the three are
\* what the input stripped to area_id, month and risk_index gives under the
\* same threshold, so alert fields shipped on the input are overwritten
\* and change nothing.
C20_OnlyAlertFieldsChange ==
    LET in   == Val(features)
        core == recomputeAlerts(Some(CoreOf(in)), alertThreshold)
    IN  /\ Len(recomputedFeatures) = Len(in)
        /\ \A j \in 1..Len(recomputedFeatures) :
               LET o   == recomputedFeatures[j]
                   row == in[Val(o.theft_count)]
               IN  /\ DOMAIN o = (DOMAIN row) \cup AlertFields
                   /\ \A k \in (DOMAIN row) \ AlertFields : o[k] = row[k]
                   /\ Restrict(o, AlertFields) = Restrict(core[j], AlertFields)

\* After the threshold was moved: an input record shipped with alert_level
\* 'warning' comes out with 'none', and one shipped without alert fields
\* comes out on watch
C20_Witness ==
    /\ alertThreshold = 10
    /\ \E j \in 1..Len(recomputedFeatures) :
           LET o == recomputedFeatures[j]
           IN  /\ "alert_level" \in DOMAIN Val(features)[Val(o.theft_count)]
               /\ Val(features)[Val(o.theft_count)].alert_level = "warning"
               /\ o.alert_level = "none"
               /\ ~o.alert_spike
               /\ o.exposure = 9
    /\ \E j \in 1..Len(recomputedFeatures) :
           LET o == recomputedFeatures[j]
           IN  /\ "alert_level" \notin DOMAIN Val(features)[Val(o.theft_count)]
               /\ o.alert_level = "watch"

\* Each area's records are next to each other
AreaGrouped(rows) ==
    \A i, j, k \in 1..Len(rows) :
        (i < j /\ j < k /\ rows[i].area_id = rows[k].area_id)
            => rows[j].area_id = rows[i].area_id

\* Within each area the months do not go down
MonthSorted(rows) ==
    \A i, j \in 1..Len(rows) :
        (i < j /\ rows[i].area_id = rows[j].area_id)
            => rows[i].month <= rows[j].month

\* The j-th record of the result is the j-th record of the input (each
\* record carries its place in the input as theft_count)
SameOrder ==
    \A j \in 1..Len(recomputedFeatures) :
        recomputedFeatures[j].theft_count = Some(j)

\* C21: the records of the result are in the order of the input if and
\* only if the input has each area's records next to each other and, within
\* each area, in ascending order of month.
C21_OrderKeptIff ==
    SameOrder <=> (AreaGrouped(Val(features)) /\ MonthSorted(Val(features)))

\* After the threshold was moved: an input of two areas, grouped and sorted
\* with a month repeated, whose order is kept
C21_Witness ==
    /\ alertThreshold = 10
    /\ Cardinality(AreaIds(Val(features))) = 2
    /\ \E i \in 1..(Len(Val(features)) - 1) :
           /\ Val(features)[i].area_id = Val(features)[i + 1].area_id
           /\ Val(features)[i].month = Val(features)[i + 1].month
    /\ AreaGrouped(Val(features))
    /\ MonthSorted(Val(features))
    /\ SameOrder

\* An input that is grouped by area but not sorted by month, and one that
\* is sorted but not grouped: the order is not kept
C21_ReorderedWitness ==
    /\ alertThreshold = 10
    /\ ~SameOrder
    /\ \/ AreaGrouped(Val(features)) /\ ~MonthSorted(Val(features))
       \/ ~AreaGrouped(Val(features)) /\ MonthSorted(Val(features))

\* none < watch < warning
LevelRank(level) ==
    IF level = "none" THEN 0 ELSE IF level = "watch" THEN 1 ELSE 2

\* C22: in every area group the first three records in chronological order
\* have alert_spike false and the first two have alert_trend3 false; so the
\* first two are 'none', the third is at most 'watch', and 'warning' occurs
\* at the fourth record at the earliest.
C22_WarmUp ==
    \A a \in AreaIds(recomputedFeatures) :
        LET g == GroupOf(recomputedFeatures, a)
        IN  \A t \in 0..(Len(g) - 1) :
                /\ t < 3 => ~g[t + 1].alert_spike
                /\ t < 2 => ~g[t + 1].alert_trend3
                /\ t < 2 => g[t + 1].alert_level = "none"
                /\ t = 2 => g[t + 1].alert_level \in {"none", "watch"}
                /\ g[t + 1].alert_level = "warning" => t >= 3

\* After the threshold was moved: an area whose third record is above the
\* mean of the two before it and does not spike, and whose fourth is a
\* warning
C22_Witness ==
    \E a \in AreaIds(recomputedFeatures) :
        LET g == GroupOf(recomputedFeatures, a)
        IN  /\ alertThreshold = 10
            /\ Len(g) >= 4
            /\ g[3].risk_index # Null
            /\ ~g[3].alert_spike
            /\ Cardinality(NonNullIn(g, 2)) = 2
            /\ ExceedsCutoff(g, 2)
            /\ g[4].alert_level = "warning"

\* An area whose third record is on watch by its trend
C22_ThirdWatchWitness ==
    \E a \in AreaIds(recomputedFeatures) :
        LET g == GroupOf(recomputedFeatures, a)
        IN  /\ alertThreshold = 10
            /\ Len(g) >= 3
            /\ g[3].alert_trend3
            /\ g[3].alert_level = "watch"

\* C23: the records of the result with a given area_id are what
\* recomputeAlerts gives on that area's records alone, so records of other
\* areas, wherever they stand in the input, change no alert field of it.
C23_AreaIndependence ==
    \A a \in AreaIds(Val(features)) :
        GroupOf(recomputedFeatures, a)
            = recomputeAlerts(
                  Some(SelectSeq(Val(features), LAMBDA f : f.area_id = a)),
                  alertThreshold)

\* After the threshold was moved: records of a second area stand between
\* the records of an area that has an alert
C23_Witness ==
    /\ alertThreshold = 10
    /\ \E i \in 2..(Len(Val(features)) - 1) :
           /\ Val(features)[i - 1].area_id # Val(features)[i].area_id
           /\ Val(features)[i + 1].area_id = Val(features)[i - 1].area_id
    /\ \E j \in 1..Len(recomputedFeatures) :
           recomputedFeatures[j].alert_level # "none"

\* The alert fields recomputeAlerts gives the last of rows
LastAlerts(rows) ==
    LET out == recomputeAlerts(Some(rows), alertThreshold)
    IN  Restrict(out[Len(out)], AlertFields)

\* C24: the alert fields of the record at chronological position t of an
\* area are what the records at positions t-6..t alone give: records older
\* than t-6 and records after t change nothing.
C24_WindowLocality ==
    \A a \in AreaIds(recomputedFeatures) :
        LET g == GroupOf(recomputedFeatures, a)
        IN  \A t \in 0..(Len(g) - 1) :
                Restrict(g[t + 1], AlertFields)
                    = LastAlerts(SubSeq(g, Max(0, t - 6) + 1, t + 1))

\* After the threshold was moved: a record with seven records before it
\* does not spike, its risk_index being above the cutoff that the oldest
\* of the seven and the six of the window would give together
C24_Witness ==
    \E a \in AreaIds(recomputedFeatures) :
        LET g == GroupOf(recomputedFeatures, a)
        IN  /\ alertThreshold = 10
            /\ Len(g) >= 8
            /\ g[8].risk_index # Null
            /\ ~g[8].alert_spike
            /\ g[1].risk_index # Null
            /\ Cardinality(NonNullIn(g, 7)) = 6
            /\ Val(g[8].risk_index) * 7 * 100
                   > (RiskSum(g, NonNullIn(g, 7)) + Val(g[1].risk_index))
                         * (100 + alertThreshold)

\* C25: for every threshold no greater than the current one, each record
\* that spikes under the current threshold spikes under the lower one too,
\* alert_trend3 is the same under both, and the alert_level under the
\* current threshold is no higher than under the lower one.
C25_ThresholdMonotone ==
    \A lower \in {v \in AlertThresholds : v <= alertThreshold} :
        LET low == recomputeAlerts(features, lower)
        IN  \A j \in 1..Len(recomputedFeatures) :
                /\ recomputedFeatures[j].alert_spike => low[j].alert_spike
                /\ recomputedFeatures[j].alert_trend3 = low[j].alert_trend3
                /\ LevelRank(recomputedFeatures[j].alert_level)
                       <= LevelRank(low[j].alert_level)

\* The threshold was raised to 1.00: a record that spikes at 0.10 no longer
\* does, and its level went down
C25_Witness ==
    /\ alertThreshold = 100
    /\ \E j \in 1..Len(recomputedFeatures) :
           /\ ~recomputedFeatures[j].alert_spike
           /\ recomputeAlerts(features, 10)[j].alert_spike
           /\ LevelRank(recomputedFeatures[j].alert_level)
                  < LevelRank(recomputeAlerts(features, 10)[j].alert_level)

\* C26: recomputeAlerts applied to its own result with the same threshold
\* gives that result again, in the same order and with the same alert
\* fields.
C26_Idempotent ==
    recomputeAlerts(Some(recomputedFeatures), alertThreshold)
        = recomputedFeatures

\* After the threshold was moved: a result of two areas with an alert whose
\* order is not the input's
C26_Witness ==
    /\ alertThreshold = 10
    /\ Cardinality(AreaIds(recomputedFeatures)) = 2
    /\ ~SameOrder
    /\ \E j \in 1..Len(recomputedFeatures) :
           recomputedFeatures[j].alert_level # "none"

----------------------------------------------------------------------------
\* Properties of the App from construction (checked under Spec)

\* C8: when the records given to recomputeAlerts are an empty array or
\* absent, the result is an empty array; so until the loader has delivered
\* features, the current-month slice, the month A and B slices, the delta
\* records and the top-10 ranking are all empty.
C8_EmptyInEmptyOut ==
    /\ (IsNull(features) \/ features = Some(<<>>))
           => recomputedFeatures = <<>>
    /\ IsNull(features)
           => /\ currentFeatures = <<>>
              /\ featuresA = <<>>
              /\ featuresB = <<>>
              /\ deltaFeatures = <<>>
              /\ rankedTopN = <<>>

\* The features file has arrived but Promise.all has not fulfilled yet:
\* the App has rendered with features still absent
C8_Witness ==
    /\ IsNull(features)
    /\ fetches["features"] = "ok"
    /\ recomputedFeatures = <<>>
    /\ rankedTopN = <<>>

\* The loader delivered an empty array and the threshold was then moved
C8_EmptyArrayWitness ==
    /\ features = Some(<<>>)
    /\ alertThreshold = 100
    /\ recomputedFeatures = <<>>

\* C17: in every reachable state, from the first render on and after any
\* sequence of threshold-slider events, alertThreshold is one of 0.10, 0.15,
\* ..., 1.00 (in hundredths: 10, 15, ..., 100), and it is the value the
\* enriched records were computed with; until the main UI is on screen it
\* is the initial 0.50.
C17_ThresholdRange ==
    /\ alertThreshold \in {10 + 5 * k : k \in 0..18}
    /\ loading => alertThreshold = 50
    /\ recomputedFeatures = recomputeAlerts(features, alertThreshold)

\* The slider was moved to its lowest stop with a panel on screen
C17_Witness ==
    /\ ~loading
    /\ ~IsNull(features)
    /\ Len(Val(features)) > 0
    /\ alertThreshold = 10

\* The slider was moved to its highest stop
C17_MaxWitness == ~loading /\ alertThreshold = 100

\* The loader's state, as useDataLoader returns it
LoaderState == <<areas, features, meta, loading, error>>

\* The two outcomes of the loader
LoadedOutcome ==
    /\ ~IsNull(areas) /\ ~IsNull(features) /\ ~IsNull(meta)
    /\ IsNull(error)
    /\ \A k \in FetchNames : fetches[k] = "ok"

FailedOutcome ==
    /\ ~IsNull(error)
    /\ IsNull(areas) /\ IsNull(features) /\ IsNull(meta)
    /\ \E k \in FetchNames : fetches[k] = "failed"

\* The selectors and settings only the main UI's controls and effect change
Selections ==
    <<mode, monthIndex, monthA, monthB, displayMetric, filterAlertsOnly,
      alertThreshold>>

\* C28: the loader ends in exactly one of two outcomes and never mixes
\* them: all three fetches succeeded and areas, features and meta are all
\* set with error null, or a fetch failed and error is set while areas,
\* features and meta stay null. loading starts true, becomes false exactly
\* once, when the outcome is reached, and never returns to true; the main
\* UI acts only when loading is false and error is null.
C28_LoaderOutcome ==
    /\ loading = TRUE
    /\ [](/\ loading => (IsNull(areas) /\ IsNull(features) /\ IsNull(meta)
                              /\ IsNull(error))
          /\ ~loading => (LoadedOutcome \/ FailedOutcome)
          /\ ~(LoadedOutcome /\ FailedOutcome)
          /\ (~IsNull(error) \/ ~IsNull(areas) \/ ~IsNull(features)
                 \/ ~IsNull(meta)) => ~loading)
    /\ [][/\ ~loading => (~loading' /\ LoaderState' = LoaderState)
          /\ Selections' # Selections => (~loading /\ IsNull(error))]_vars

\* A fetch succeeded and another failed: the error outcome, with nothing
\* of the successful fetch exposed
C28_Witness ==
    /\ FailedOutcome
    /\ ~loading
    /\ \E k \in FetchNames : fetches[k] = "ok"
    /\ promise.state = "handled"

\* All three fetches succeeded and the main UI has been used
C28_LoadedWitness ==
    /\ LoadedOutcome
    /\ ~loading
    /\ mode = "monthCompare"

\* C29: once the component is unmounted (the cleanup has set cancelled),
\* no state of the loader (areas, features, meta, loading, error) changes
\* any more, whether the pending fetches then succeed or fail and in
\* whatever order they complete.
C29_CancelledFreezes ==
    [][cancelled => LoaderState' = LoaderState]_vars

\* Unmounted while fetches were pending; they all succeeded afterwards and
\* the .then callback has run
C29_Witness ==
    /\ cancelled
    /\ loading
    /\ promise.state = "handled"
    /\ \A k \in FetchNames : fetches[k] = "ok"

\* Unmounted while fetches were pending; one failed afterwards and the
\* .catch callback has run
C29_FailedWitness ==
    /\ cancelled
    /\ loading
    /\ promise.state = "handled"
    /\ promise.reason # Null
    /\ IsNull(error)

\* meta has loaded with a non-empty month list and the initialisation
\* effect has run
SelectorsReady ==
    /\ ~IsNull(meta)
    /\ Len(Val(meta).months) > 0
    /\ ~metaEffectPending

\* The month m is one of meta.months
IsMonth(m) == \E i \in 1..Len(Val(meta).months) : Val(meta).months[i] = m

\* C30: once meta with a non-empty month list has loaded and the
\* initialisation effect has run, monthIndex is the last index, monthB the
\* last month and monthA is months[max(0, length - 7)]; thereafter, after
\* any sequence of slider events, monthIndex is a valid index into months
\* and monthA and monthB are members of months, so the current month,
\* month A and month B always name an available month.
C30_MonthsAvailable ==
    /\ [](SelectorsReady
            => /\ monthIndex \in 0..(Len(Val(meta).months) - 1)
               /\ IsMonth(monthA)
               /\ IsMonth(monthB)
               /\ IsMonth(currentMonthOf(meta, monthIndex)))
    /\ [][(~SelectorsReady /\ SelectorsReady')
            => LET n == Len(Val(meta').months)
               IN  /\ monthIndex' = n - 1
                   /\ monthB' = Val(meta').months[n]
                   /\ monthA' = Val(meta').months[
                                    IF n - 7 > 0 THEN n - 7 + 1 ELSE 1]]_vars

\* A long month list: after the effect month A was the month seven before
\* the end, not the first; the thumbs and the single slider were then
\* moved
C30_Witness ==
    /\ SelectorsReady
    /\ Len(Val(meta).months) > 7
    /\ monthA = Val(meta).months[1]
    /\ monthB = Val(meta).months[3]
    /\ monthIndex = 0

\* A short month list: the effect has just set month A to the first month
C30_ShortWitness ==
    /\ SelectorsReady
    /\ Len(Val(meta).months) < 7
    /\ monthA = Val(meta).months[1]
    /\ monthB = Val(meta).months[Len(Val(meta).months)]
    /\ monthIndex = Len(Val(meta).months) - 1
    /\ mode = "metricCompare"

----------------------------------------------------------------------------
\* Properties of the month comparison (checked under SpecCompare)

\* Months A and B are both chosen and differ
Comparing == monthA # 0 /\ monthB # 0 /\ monthA # monthB

\* The places in the enriched records of area a's records of month m
PlacesOf(a, m) ==
    {i \in 1..Len(recomputedFeatures) :
        /\ recomputedFeatures[i].area_id = a
        /\ recomputedFeatures[i].month = m}

\* The area_ids that have an enriched record at month m
AreasAt(m) ==
    {recomputedFeatures[i].area_id :
        i \in {j \in 1..Len(recomputedFeatures) :
                  recomputedFeatures[j].month = m}}

\* C9: for months A # B, the delta records hold exactly one record for each
\* area_id that has an enriched record at month A or at month B: none of
\* them is missing, none appears twice, and no other area appears.
C9_DeltaUnion ==
    Comparing =>
        /\ AreaIds(deltaFeatures) = AreasAt(monthA) \cup AreasAt(monthB)
        /\ \A i, j \in 1..Len(deltaFeatures) :
               i # j => deltaFeatures[i].area_id # deltaFeatures[j].area_id

\* Months A # B chosen with the thumbs, one area present at A only, one at
\* B only, and one with records but none at A or B
C9_Witness ==
    /\ Comparing
    /\ mode = "monthCompare"
    /\ monthA = 2
    /\ AreasAt(monthA) \ AreasAt(monthB) # {}
    /\ AreasAt(monthB) \ AreasAt(monthA) # {}
    /\ AreaIds(recomputedFeatures)
           \ (AreasAt(monthA) \cup AreasAt(monthB)) # {}
    /\ Len(deltaFeatures) = 2

\* The risk_index of area a on the side of month m: null when the area has
\* no record at m (the last record counts when the input repeats the pair)
SideRisk(a, m) ==
    IF PlacesOf(a, m) = {} THEN Null
    ELSE LET last == CHOOSE i \in PlacesOf(a, m) :
                         \A j \in PlacesOf(a, m) : j <= i
         IN  Get(recomputedFeatures[last], "risk_index")

Abs(x) == IF x < 0 THEN 0 - x ELSE x

\* r is x rounded to 4 decimals, in units of 0.00001: a multiple of 10 no
\* further than 5 from x
IsRounded4(r, x) == r % 10 = 0 /\ Abs(r - x) <= 5

\* C10: in every DeltaRecord, delta_risk_index is null if and only if the
\* risk_index is null or absent on side A or on side B (an area with no
\* record at that month included); otherwise it is risk_index_b minus
\* risk_index_a rounded to 4 decimals.  A risk_index of 0 counts as
\* present, and a missing side stays null: it is never replaced by 0.
C10_DeltaRisk ==
    Comparing =>
        \A i \in 1..Len(deltaFeatures) :
            LET d   == deltaFeatures[i]
                riA == SideRisk(d.area_id, monthA)
                riB == SideRisk(d.area_id, monthB)
            IN  /\ d.risk_index_a = riA
                /\ d.risk_index_b = riB
                /\ d.delta_risk_index = Null <=> (riA = Null \/ riB = Null)
                /\ d.delta_risk_index # Null
                       => IsRounded4(Val(d.delta_risk_index),
                                     Val(riB) - Val(riA))

\* Months chosen with the thumbs; one area has risk 0 at A and a risk at B
\* that rounding changes, another has a record at B only
C10_Witness ==
    /\ Comparing
    /\ mode = "monthCompare"
    /\ monthA = 2
    /\ \E i \in 1..Len(deltaFeatures) :
           /\ deltaFeatures[i].risk_index_a = Some(0)
           /\ deltaFeatures[i].risk_index_b = Some(4)
           /\ deltaFeatures[i].delta_risk_index = Some(0)
    /\ \E i \in 1..Len(deltaFeatures) :
           /\ PlacesOf(deltaFeatures[i].area_id, monthA) = {}
           /\ deltaFeatures[i].risk_index_b # Null
           /\ deltaFeatures[i].risk_index_a = Null
           /\ deltaFeatures[i].delta_risk_index = Null

\* The record of area a on the side of month m: the last of the area's
\* enriched records of that month, the empty object when it has none
SideRecord(a, m) ==
    IF PlacesOf(a, m) = {} THEN EmptyObject
    ELSE recomputedFeatures[CHOOSE i \in PlacesOf(a, m) :
                                \A j \in PlacesOf(a, m) : j <= i]

\* The theft_count of a side: 0 when the side has no record or no count
SideCount(rec) ==
    IF "theft_count" \in DOMAIN rec /\ rec.theft_count # Null
    THEN Val(rec.theft_count)
    ELSE 0

\* C11: in every DeltaRecord, theft_count_a and theft_count_b are the
\* theft_count of the area's record at month A and at month B, or 0 when
\* that side has no record or no count, and delta_count is theft_count_b
\* minus theft_count_a.
C11_DeltaCount ==
    Comparing =>
        \A i \in 1..Len(deltaFeatures) :
            LET d == deltaFeatures[i]
            IN  /\ d.theft_count_a = SideCount(SideRecord(d.area_id, monthA))
                /\ d.theft_count_b = SideCount(SideRecord(d.area_id, monthB))
                /\ d.delta_count = d.theft_count_b - d.theft_count_a

\* Months chosen with the thumbs; one area's count falls from A to B, one
\* area has a count at B and no record at A, and one has a record at B
\* that carries no count
C11_Witness ==
    /\ Comparing
    /\ mode = "monthCompare"
    /\ monthA = 2
    /\ \E i \in 1..Len(deltaFeatures) :
           /\ deltaFeatures[i].theft_count_a = 3
           /\ deltaFeatures[i].theft_count_b = 1
           /\ deltaFeatures[i].delta_count = 0 - 2
    /\ \E i \in 1..Len(deltaFeatures) :
           /\ PlacesOf(deltaFeatures[i].area_id, monthA) = {}
           /\ deltaFeatures[i].theft_count_a = 0
           /\ deltaFeatures[i].delta_count = 2
    /\ \E i \in 1..Len(deltaFeatures) :
           /\ PlacesOf(deltaFeatures[i].area_id, monthB) # {}
           /\ "theft_count" \notin
                  DOMAIN SideRecord(deltaFeatures[i].area_id, monthB)
           /\ deltaFeatures[i].theft_count_b = 0

\* C12: when month A equals month B the delta records are an empty array,
\* whatever the enriched records are; records with all-zero deltas are
\* never produced.
C12_SelfCompareEmpty == monthA = monthB => deltaFeatures = <<>>

\* Thumb A was moved onto thumb B's month, at which areas have records
C12_Witness ==
    /\ mode = "monthCompare"
    /\ monthA = monthB
    /\ monthA = 1
    /\ Cardinality(AreasAt(monthA)) >= 2
    /\ deltaFeatures = <<>>

\* C13: in every DeltaRecord, area_name is the month-A record's area_name
\* when it has one, otherwise the month-B record's (the empty string when
\* neither has); alert_level and stability_flag are those of the month-B
\* record, and 'none' and false when the area has no record at month B,
\* whatever the month-A record holds.
C13_DeltaLabels ==
    Comparing =>
        \A i \in 1..Len(deltaFeatures) :
            LET d == deltaFeatures[i]
                a == SideRecord(d.area_id, monthA)
                b == SideRecord(d.area_id, monthB)
            IN  /\ d.area_name =
                       IF "area_name" \in DOMAIN a THEN a.area_name
                       ELSE IF "area_name" \in DOMAIN b THEN b.area_name
                       ELSE ""
                /\ PlacesOf(d.area_id, monthB) # {}
                       => /\ d.alert_level = b.alert_level
                          /\ d.stability_flag =
                                 IF "stability_flag" \in DOMAIN b
                                 THEN b.stability_flag ELSE FALSE
                /\ PlacesOf(d.area_id, monthB) = {}
                       => /\ d.alert_level = "none"
                          /\ d.stability_flag = FALSE

\* Months chosen with the thumbs; an area whose month-A record has an alert
\* and a true stability_flag has no record at month B, so its DeltaRecord
\* has 'none' and false and the month-A name
C13_Witness ==
    /\ Comparing
    /\ mode = "monthCompare"
    /\ \E i \in 1..Len(deltaFeatures) :
           LET d == deltaFeatures[i]
               a == SideRecord(d.area_id, monthA)
           IN  /\ PlacesOf(d.area_id, monthB) = {}
               /\ PlacesOf(d.area_id, monthA) # {}
               /\ a.alert_level = "watch"
               /\ a.stability_flag
               /\ d.alert_level = "none"
               /\ ~d.stability_flag
               /\ d.area_name = a.area_name

\* The month-B record's alert is shown, and the name falls back to the
\* month-B record's because the month-A record has none
C13_FallbackWitness ==
    /\ Comparing
    /\ mode = "monthCompare"
    /\ \E i \in 1..Len(deltaFeatures) :
           LET d == deltaFeatures[i]
               a == SideRecord(d.area_id, monthA)
               b == SideRecord(d.area_id, monthB)
           IN  /\ PlacesOf(d.area_id, monthA) # {}
               /\ "area_name" \notin DOMAIN a
               /\ "area_name" \in DOMAIN b
               /\ d.area_name = b.area_name
               /\ a.alert_level = "none"
               /\ d.alert_level = "watch"
               /\ d.stability_flag

\* The nullable number x negated
Negated(x) == IF x = Null THEN Null ELSE Some(0 - Val(x))

\* C27: with months A and B exchanged the delta records are for the same
\* area_ids, and for each area delta_count is negated, delta_risk_index is
\* negated when it is not null and null in both directions otherwise, and
\* the _a and _b values of risk_index and theft_count are exchanged.
C27_SwapAntisymmetry ==
    Comparing =>
        LET swapped == deltaFeaturesOf(recomputedFeatures, monthB, monthA)
        IN  /\ AreaIds(swapped) = AreaIds(deltaFeatures)
            /\ Len(swapped) = Len(deltaFeatures)
            /\ \A i \in 1..Len(deltaFeatures) :
                   \A j \in 1..Len(swapped) :
                       swapped[j].area_id = deltaFeatures[i].area_id
                           => LET d == deltaFeatures[i]
                                  w == swapped[j]
                              IN  /\ w.delta_count = 0 - d.delta_count
                                  /\ w.delta_risk_index
                                         = Negated(d.delta_risk_index)
                                  /\ w.risk_index_a = d.risk_index_b
                                  /\ w.risk_index_b = d.risk_index_a
                                  /\ w.theft_count_a = d.theft_count_b
                                  /\ w.theft_count_b = d.theft_count_a

\* Months chosen with the thumbs: one area's risk difference lies halfway
\* between two multiples of 0.0001 and its counts differ, and another area
\* has a record on one side only
C27_Witness ==
    /\ Comparing
    /\ mode = "monthCompare"
    /\ monthA = 2
    /\ \E i \in 1..Len(deltaFeatures) :
           /\ deltaFeatures[i].risk_index_a # Null
           /\ deltaFeatures[i].risk_index_b # Null
           /\ Abs(Val(deltaFeatures[i].risk_index_b)
                    - Val(deltaFeatures[i].risk_index_a)) % 10 = 5
           /\ deltaFeatures[i].delta_count # 0
    /\ \E i \in 1..Len(deltaFeatures) :
           /\ deltaFeatures[i].delta_risk_index = Null
           /\ PlacesOf(deltaFeatures[i].area_id, monthB) = {}

----------------------------------------------------------------------------
\* Properties of the ranking (checked under SpecRanking)

\* The array the ranking reads and the field it ranks by
RankSource == SourceOf(mode, deltaFeatures, currentFeatures)

RankMetric == MetricOf(mode, displayMetric)

\* alert_level is present and is not 'none'
Alerting(f) ==
    "alert_level" \in DOMAIN f /\ f.alert_level \notin {"", "none"}

\* The places of the source whose record the ranking may list
EligiblePlaces ==
    {i \in 1..Len(RankSource) :
        /\ RankMetric \in DOMAIN RankSource[i]
        /\ RankSource[i][RankMetric] # Null
        /\ filterAlertsOnly => Alerting(RankSource[i])}

C14_ZeroKeptWitness ==
    /\ mode = "monthCompare"
    /\ \E j \in 1..Len(rankedTopN) : rankedTopN[j][RankMetric] = Some(0)
    /\ \E i \in 1..Len(RankSource) : RankSource[i][RankMetric] = Null
    /\ Len(rankedTopN) < Len(RankSource)

\* The place in the source of the j-th record of the ranking
PlaceOf(j) == CHOOSE i \in 1..Len(RankSource) : RankSource[i] = rankedTopN[j]

\* The metric value of the record at place i of the source
MetricAt(i) == Val(RankSource[i][RankMetric])

\* C15: the ranking is the first min(10, k) of the k eligible records of
\* the source in descending order of metric, equal values in source order:
\* its elements are eligible records at distinct places, in non-increasing
\* metric order, records of equal metric in the order of their places, and
\* every eligible record left out has a metric no greater than that of any
\* included record, and a later place than an included record of equal
\* metric.
C15_RankingOrder ==
    LET n == Len(rankedTopN)
    IN  /\ n = Min(10, Cardinality(EligiblePlaces))
        /\ \A j \in 1..n :
               /\ \E i \in EligiblePlaces : RankSource[i] = rankedTopN[j]
               /\ PlaceOf(j) \in EligiblePlaces
        /\ \A j1, j2 \in 1..n :
               j1 < j2 =>
                   \/ MetricAt(PlaceOf(j1)) > MetricAt(PlaceOf(j2))
                   \/ /\ MetricAt(PlaceOf(j1)) = MetricAt(PlaceOf(j2))
                      /\ PlaceOf(j1) < PlaceOf(j2)
        /\ \A i \in EligiblePlaces \ {PlaceOf(j) : j \in 1..n} :
               \A j \in 1..n :
                   \/ MetricAt(i) < MetricAt(PlaceOf(j))
                   \/ /\ MetricAt(i) = MetricAt(PlaceOf(j))
                      /\ i > PlaceOf(j)

\* A ranking by theft_count of 10 records, with equal values next to each
\* other and a strict drop, that leaves out an eligible record whose value
\* equals the last included one
C15_Witness ==
    /\ mode = "metricCompare"
    /\ displayMetric = "theft_count"
    /\ Len(rankedTopN) = 10
    /\ \E j \in 1..9 :
           rankedTopN[j][RankMetric] = rankedTopN[j + 1][RankMetric]
    /\ \E j \in 1..9 :
           rankedTopN[j][RankMetric] # rankedTopN[j + 1][RankMetric]
    /\ \E i \in EligiblePlaces :
           /\ \A j \in 1..10 : RankSource[i] # rankedTopN[j]
           /\ RankSource[i][RankMetric] = rankedTopN[10][RankMetric]

----------------------------------------------------------------------------
\* Properties of the memo chain (checked under SpecMemo)

\* C18: after any sequence of changes of the threshold, the mode, the month
\* index, month A, month B, the display metric and the alerts-only toggle,
\* the enriched records, the three month slices, the delta records, the
\* alert count and the ranking are what their functions give on the latest
\* state values; no value computed from an older threshold or selection
\* stays on display.
C18_LatestState ==
    LET enriched == recomputeAlerts(features, alertThreshold)
        current  == MonthSlice(enriched, currentMonthOf(meta, monthIndex))
        delta    == deltaFeaturesOf(enriched, monthA, monthB)
        source   == SourceOf(mode, delta, current)
    IN  /\ recomputedFeatures = enriched
        /\ currentFeatures = current
        /\ featuresA = MonthSlice(enriched, monthA)
        /\ featuresB = MonthSlice(enriched, monthB)
        /\ deltaFeatures = delta
        /\ alertCount = alertCountOf(source)
        /\ rankedTopN =
               rankedTopNOf(source, MetricOf(mode, displayMetric),
                            filterAlertsOnly)

\* Every control was used; the enriched records differ from those of the
\* initial threshold, and the ranking from the one without alerts-only
C18_Witness ==
    /\ alertThreshold = 100
    /\ recomputedFeatures # recomputeAlerts(features, 50)
    /\ mode = "monthCompare"
    /\ monthA = 3
    /\ monthIndex = 0
    /\ displayMetric = "theft_count"
    /\ filterAlertsOnly
    /\ rankedTopN # rankedTopNOf(deltaFeatures, "delta_risk_index", FALSE)
    /\ rankedTopN # <<>>

====
